---- MODULE Spec2Model ----
(***************************************************************************)
(* The HTTP handlers of the require service (analytic and category         *)
(* handlers) over the service layer they call.  The handlers are           *)
(* translated from the Go source; the service and repository behind        *)
(* h.srv are not part of the handler package and are written from the      *)
(* design document (sections 3, 4 and 5).                                  *)
(***************************************************************************)
EXTENDS Integers, FiniteSets, Sequences, TLC

\* ------------------------------------------------------------------ bounds
\* all handlers, one request at a time
MaxPostID == 1
MaxAnalyticID == 1
\* the category listings
MaxListedPostID == 3
\* the write paths: the write handlers, and concurrent AddAnalytic requests
MaxWritePostID == 2
MaxWriteAnalyticID == 2
\* the path parameters strconv.Atoi is given: "abc" and "0" .. MaxParam
MaxParam == 9

Titles == {"t1", "t2"}
Metrics == {0, 1}
Roles == {"admin", "user"}
\* texts of persistence failures that are none of the named errors
Details == {"d1", "d2"}
NoFail == "ok"
\* an optional (pointer) field of a partial update: <<>> unset, <<v>> set to v
None == <<>>
Some(v) == <<v>>

\* ------------------------------------------------------- net/http statuses
StatusOK == 200
StatusCreated == 201
StatusNoContent == 204
StatusBadRequest == 400
StatusUnauthorized == 401
StatusNotFound == 404
StatusConflict == 409
StatusInternalServerError == 500

\* --------------------------------------------------- repository error values
NoErr == "nil"
ErrPostIDExist == "ErrPostIDExist"
ErrAnalyticDependencyNotFound == "ErrAnalyticDependencyNotFound"
ErrAnalyticNotFound == "ErrAnalyticNotFound"
ErrPostNotFound == "ErrPostNotFound"
ErrCategoryNotFound == "ErrCategoryNotFound"
ErrCategoryExists == "ErrCategoryExists"
\* persistence failures that are none of the named errors
ErrCategoryInUse == "category is referenced by posts"
ErrDuplicateTitle == "duplicate key violates the title uniqueness constraint"

\* errors.Is(err, target) on the sentinel values
ErrorsIs(err, target) == err = target

VARIABLES
  categories,   \* the Category store: the set of titles
  posts,        \* the Post store: records [id, cat, public]
  analytics,    \* the Analytic store: records [id, postID, views]
  nextID,       \* the next server-assigned Analytic id
  inflight,     \* AddAnalytic calls between their check and their insert
  resp          \* the response written by the request handled in this step

vars == <<categories, posts, analytics, nextID, inflight, resp>>

\* the persistent state as one value, as the service operations take and return it
Store == [categories |-> categories, posts |-> posts,
          analytics |-> analytics, nextID |-> nextID]

\* the result of a service call: the error, the returned value, the store after it
Result(err, val, st) == [err |-> err, val |-> val, st |-> st]

\* ================================================================ service
\* ---------------------------------------------------- Post Reference Resolver
PostExists(st, postID) == \E p \in st.posts : p.id = postID

ListPosts(st, publicOnly) ==
  {p \in st.posts : (publicOnly => p.public) /\ p.cat \in st.categories}

\* ---------------------------------------------------- Category Lifecycle
SrvAddCategory(st, title, fail) ==
  IF fail # NoFail THEN Result(fail, None, st)
  ELSE IF title \in st.categories THEN Result(ErrCategoryExists, None, st)
  ELSE Result(NoErr, title, [st EXCEPT !.categories = @ \cup {title}])

Renamed(ps, old, new) ==
  {IF p.cat = old THEN [p EXCEPT !.cat = new] ELSE p : p \in ps}

SrvUpdateCategory(st, old, new, fail) ==
  IF fail # NoFail THEN Result(fail, None, st)
  ELSE IF old \notin st.categories THEN Result(ErrCategoryNotFound, None, st)
  ELSE IF new \in st.categories \ {old} THEN Result(ErrDuplicateTitle, None, st)
  ELSE Result(NoErr, new,
              [st EXCEPT !.categories = (@ \ {old}) \cup {new},
                         !.posts = Renamed(@, old, new)])

\* cascade: TRUE removes the dependent Posts, FALSE refuses while any exist
SrvDeleteCategory(st, title, cascade, fail) ==
  IF fail # NoFail THEN Result(fail, None, st)
  ELSE IF title \notin st.categories THEN Result(ErrCategoryNotFound, None, st)
  ELSE IF (\E p \in st.posts : p.cat = title) /\ ~cascade
    THEN Result(ErrCategoryInUse, None, st)
  ELSE Result(NoErr, None,
              [st EXCEPT !.categories = @ \ {title},
                         !.posts = {p \in @ : p.cat # title}])

SrvGetAllCategories(st, fail) ==
  IF fail # NoFail THEN Result(fail, None, st)
  ELSE IF st.categories = {} THEN Result(ErrCategoryNotFound, None, st)
  ELSE Result(NoErr, st.categories, st)

\* ---------------------------------------------------- Projection Builder
\* group a Post list by Category title: title -> the ids of its Posts
GroupByCategory(ps) ==
  [t \in {p.cat : p \in ps} |-> {p.id : p \in {q \in ps : q.cat = t}}]

SrvGetCategoriesWithPublicPosts(st, fail) ==
  IF fail # NoFail THEN Result(fail, None, st)
  ELSE IF ListPosts(st, TRUE) = {} THEN Result(ErrPostNotFound, None, st)
  ELSE Result(NoErr, GroupByCategory(ListPosts(st, TRUE)), st)

SrvGetCategoriesWithPosts(st, fail) ==
  IF fail # NoFail THEN Result(fail, None, st)
  ELSE IF ListPosts(st, FALSE) = {} THEN Result(ErrPostNotFound, None, st)
  ELSE Result(NoErr, GroupByCategory(ListPosts(st, FALSE)), st)

WordsFor(role) == IF role = "admin" THEN "full" ELSE "aggregated"

SrvGetAnalyticWithWords(st, postID, role, fail) ==
  IF fail # NoFail THEN Result(fail, None, st)
  ELSE IF ~ \E a \in st.analytics : a.postID = postID
    THEN Result(ErrAnalyticNotFound, None, st)
  ELSE Result(NoErr,
              [analytic |-> CHOOSE a \in st.analytics : a.postID = postID,
               words |-> WordsFor(role)], st)

\* ---------------------------------------------------- Analytic Lifecycle
HasAnalyticFor(st, postID) == \E a \in st.analytics : a.postID = postID

\* the two checks in the other order
AddAnalyticCheck_DependencyFirst(st, analytic) ==
  IF ~PostExists(st, analytic.postID) THEN ErrAnalyticDependencyNotFound
  ELSE IF HasAnalyticFor(st, analytic.postID) THEN ErrPostIDExist
  ELSE NoErr

\* 4.3 AddAnalytic steps 1 and 2: the duplicate check, then the dependency check
AddAnalyticCheck(st, analytic) ==
  IF HasAnalyticFor(st, analytic.postID) THEN ErrPostIDExist
  ELSE IF ~PostExists(st, analytic.postID) THEN ErrAnalyticDependencyNotFound
  ELSE NoErr

\* an insert with no uniqueness constraint behind it
InsertAnalytic_NoConstraint(st, analytic) ==
  LET row == [id |-> st.nextID, postID |-> analytic.postID,
              views |-> analytic.views]
  IN Result(NoErr, row, [st EXCEPT !.analytics = @ \cup {row}, !.nextID = @ + 1])

\* the storage boundary: the insert under the uniqueness constraint on PostID
InsertAnalytic(st, analytic) ==
  IF HasAnalyticFor(st, analytic.postID) THEN Result(ErrPostIDExist, None, st)
  ELSE LET row == [id |-> st.nextID, postID |-> analytic.postID,
                   views |-> analytic.views]
       IN Result(NoErr, row,
                 [st EXCEPT !.analytics = @ \cup {row}, !.nextID = @ + 1])

SrvAddAnalytic(st, analytic, fail) ==
  IF fail # NoFail THEN Result(fail, None, st)
  ELSE IF AddAnalyticCheck(st, analytic) # NoErr
    THEN Result(AddAnalyticCheck(st, analytic), None, st)
  ELSE InsertAnalytic(st, analytic)

\* 4.4: an update is empty iff every optional field is unset
IsEmpty(update) == update.postID = None /\ update.views = None

\* merge semantics: only the fields present in the update are applied
Merge(row, update) ==
  [id |-> row.id,
   postID |-> IF update.postID = None THEN row.postID ELSE update.postID[1],
   views |-> IF update.views = None THEN row.views ELSE update.views[1]]

SrvUpdateAnalytic(st, id, update, fail) ==
  IF fail # NoFail THEN Result(fail, None, st)
  ELSE IF ~ \E a \in st.analytics : a.id = id
    THEN Result(ErrAnalyticNotFound, None, st)
  ELSE LET row == CHOOSE a \in st.analytics : a.id = id
           new == Merge(row, update)
       IN IF new.postID # row.postID /\ HasAnalyticFor(st, new.postID)
            THEN Result(ErrPostIDExist, None, st)
          ELSE IF new.postID # row.postID /\ ~PostExists(st, new.postID)
            THEN Result(ErrAnalyticDependencyNotFound, None, st)
          ELSE Result(NoErr, new,
                      [st EXCEPT !.analytics = (@ \ {row}) \cup {new}])

SrvDeleteAnalytic(st, id, fail) ==
  IF fail # NoFail THEN Result(fail, None, st)
  ELSE IF ~ \E a \in st.analytics : a.id = id
    THEN Result(ErrAnalyticNotFound, None, st)
  ELSE Result(NoErr, None,
              [st EXCEPT !.analytics = {a \in @ : a.id # id}])

\* ================================================================ transport
\* strconv.Atoi on a path parameter: the number, or 0 and an error
IdParams == {"abc"} \cup {ToString(n) : n \in 0..MaxParam}

AtoiTable ==
  [s \in IdParams |->
    IF \E n \in 0..MaxParam : ToString(n) = s
      THEN [n |-> CHOOSE n \in 0..MaxParam : ToString(n) = s, err |-> FALSE]
      ELSE [n |-> 0, err |-> TRUE]]

Atoi(s) == AtoiTable[s]

\* gin.Context.Keys as the authentication middleware leaves it
KeySets == {<<>>} \cup {[k \in {"role"} |-> r] : r \in Roles}

\* the text of a binding error (c.BindJSON, c.BindUri, c.BindQuery)
BindErrText == "bind error"

\* what a handler leaves behind: the request it served, the response (status and
\* body: an errorResponse text or a value), the log record and the service call it
\* made with the error that call returned
Response(handler, req, status, errText, val, log, call, err) ==
  [handler |-> handler, req |-> req, status |-> status, errText |-> errText,
   val |-> val, log |-> log, call |-> call, err |-> err]

NoCall == <<>>
NoLog == ""
NoResp == Response("none", None, 0, "", None, NoLog, NoCall, NoErr)

\* a handler's outcome: its response and the store it leaves
Outcome(r, st) == [resp |-> r, st |-> st]

\* c.AbortWithStatusJSON(status, errorResponse{text}) before any service call
Abort(handler, req, status, text) ==
  Response(handler, req, status, text, None, NoLog, NoCall, NoErr)

\* c.AbortWithStatusJSON(status, errorResponse{err.Error()}) on the error of the
\* service call, after h.log.Error(err.Error()) when logged
Fail(handler, req, call, r, status, logged) ==
  Response(handler, req, status, r.err, None,
           IF logged THEN r.err ELSE NoLog, call, r.err)

\* c.JSON(status, val) or c.Status(status)
Ok(handler, req, call, r, status, val) ==
  Response(handler, req, status, "", val, NoLog, call, r.err)

\* ------------------------------------------------------------ analytic handlers
\* the switch with the dependency error answered as a bad request
addAnalyticReply_DependencyAs400(req, call, r) ==
  CASE ErrorsIs(r.err, ErrPostIDExist)
         \/ ErrorsIs(r.err, ErrAnalyticDependencyNotFound) ->
         Fail("addAnalytic", req, call, r, StatusBadRequest, FALSE)
    [] r.err # NoErr /\ ~ErrorsIs(r.err, ErrPostIDExist)
                     /\ ~ErrorsIs(r.err, ErrAnalyticDependencyNotFound) ->
         Fail("addAnalytic", req, call, r, StatusInternalServerError, TRUE)
    [] OTHER -> Ok("addAnalytic", req, call, r, StatusOK, r.val)

\* the switch of addAnalytic on the result r of h.srv.AddAnalytic
addAnalyticReply(req, call, r) ==
  CASE ErrorsIs(r.err, ErrPostIDExist) ->
         Fail("addAnalytic", req, call, r, StatusBadRequest, FALSE)
    [] ErrorsIs(r.err, ErrAnalyticDependencyNotFound) ->
         Fail("addAnalytic", req, call, r, StatusConflict, FALSE)
    [] r.err # NoErr /\ ~ErrorsIs(r.err, ErrPostIDExist)
                     /\ ~ErrorsIs(r.err, ErrAnalyticDependencyNotFound) ->
         Fail("addAnalytic", req, call, r, StatusInternalServerError, TRUE)
    [] OTHER -> Ok("addAnalytic", req, call, r, StatusOK, r.val)

addAnalyticHandler(st, bindOk, analytic, fail) ==
  LET req == [bindOk |-> bindOk]
  IN IF ~bindOk
       THEN Outcome(Abort("addAnalytic", req, StatusBadRequest, BindErrText), st)
     ELSE LET r == SrvAddAnalytic(st, analytic, fail)
          IN Outcome(addAnalyticReply(req, <<"AddAnalytic", analytic>>, r), r.st)

\* the switch of updateAnalytic on the result r of h.srv.UpdateAnalytic
updateAnalyticReply(req, call, r) ==
  CASE ErrorsIs(r.err, ErrPostIDExist) ->
         Fail("updateAnalytic", req, call, r, StatusBadRequest, FALSE)
    [] ErrorsIs(r.err, ErrAnalyticNotFound) /\ ~ErrorsIs(r.err, ErrPostIDExist) ->
         Fail("updateAnalytic", req, call, r, StatusNotFound, FALSE)
    [] ErrorsIs(r.err, ErrAnalyticDependencyNotFound)
         /\ ~ErrorsIs(r.err, ErrPostIDExist)
         /\ ~ErrorsIs(r.err, ErrAnalyticNotFound) ->
         Fail("updateAnalytic", req, call, r, StatusConflict, FALSE)
    [] r.err # NoErr /\ ~ErrorsIs(r.err, ErrPostIDExist)
                     /\ ~ErrorsIs(r.err, ErrAnalyticNotFound)
                     /\ ~ErrorsIs(r.err, ErrAnalyticDependencyNotFound) ->
         Fail("updateAnalytic", req, call, r, StatusInternalServerError, TRUE)
    [] OTHER -> Ok("updateAnalytic", req, call, r, StatusOK, r.val)

\* updateAnalytic without the IsEmpty guard
updateAnalyticHandler_NoEmptyCheck(st, idParam, bindOk, update, fail) ==
  LET id == Atoi(idParam).n
      req == [idParam |-> idParam, bindOk |-> bindOk,
              empty |-> bindOk /\ update = [postID |-> None, views |-> None]]
  IN IF ~bindOk
       THEN Outcome(Abort("updateAnalytic", req, StatusBadRequest, BindErrText), st)
     ELSE LET r == SrvUpdateAnalytic(st, id, update, fail)
          IN Outcome(updateAnalyticReply(req, <<"UpdateAnalytic", id>>, r),
                     r.st)

updateAnalyticHandler(st, idParam, bindOk, update, fail) ==
  LET id == Atoi(idParam).n
      req == [idParam |-> idParam, bindOk |-> bindOk,
              empty |-> bindOk /\ update = [postID |-> None, views |-> None]]
  IN IF ~bindOk
       THEN Outcome(Abort("updateAnalytic", req, StatusBadRequest, BindErrText), st)
     ELSE IF IsEmpty(update)
       THEN Outcome(Abort("updateAnalytic", req, StatusBadRequest,
                          "analytic has no changes"), st)
     ELSE LET r == SrvUpdateAnalytic(st, id, update, fail)
          IN Outcome(updateAnalyticReply(req, <<"UpdateAnalytic", id>>, r),
                     r.st)

\* deleteAnalytic logging before it looks at the kind of the error
deleteAnalyticReply_LogsFirst(req, call, r) ==
  IF r.err # NoErr
    THEN IF ErrorsIs(r.err, ErrAnalyticNotFound)
           THEN Fail("deleteAnalytic", req, call, r, StatusNotFound, TRUE)
         ELSE Fail("deleteAnalytic", req, call, r, StatusInternalServerError, TRUE)
  ELSE Ok("deleteAnalytic", req, call, r, StatusNoContent, None)

\* the error branch of deleteAnalytic on the result r of h.srv.DeleteAnalytic
deleteAnalyticReply(req, call, r) ==
  IF r.err # NoErr
    THEN IF ErrorsIs(r.err, ErrAnalyticNotFound)
           THEN Fail("deleteAnalytic", req, call, r, StatusNotFound, FALSE)
         ELSE Fail("deleteAnalytic", req, call, r, StatusInternalServerError, TRUE)
  ELSE Ok("deleteAnalytic", req, call, r, StatusNoContent, None)

deleteAnalyticHandler(st, idParam, fail) ==
  LET id == Atoi(idParam).n
      req == [idParam |-> idParam]
      r == SrvDeleteAnalytic(st, id, fail)
  IN Outcome(deleteAnalyticReply(req, <<"DeleteAnalytic", id>>, r), r.st)

\* the error branch of getAnalyticWithWordsByPostID
getAnalyticWithWordsByPostIDReply(req, call, r) ==
  IF r.err # NoErr
    THEN IF ErrorsIs(r.err, ErrAnalyticNotFound)
           THEN Fail("getAnalyticWithWordsByPostID", req, call, r,
                     StatusNotFound, FALSE)
         ELSE Fail("getAnalyticWithWordsByPostID", req, call, r,
                   StatusInternalServerError, TRUE)
  ELSE Ok("getAnalyticWithWordsByPostID", req, call, r, StatusOK, r.val)

\* the handler going on with the empty role when the context holds none
getAnalyticWithWordsByPostIDHandler_NoRoleGate(st, idParam, keys, fail) ==
  LET id == Atoi(idParam).n
      req == [idParam |-> idParam, keys |-> keys]
      role == IF "role" \in DOMAIN keys THEN keys["role"] ELSE ""
      r == SrvGetAnalyticWithWords(st, id, role, fail)
  IN Outcome(getAnalyticWithWordsByPostIDReply(
               req, <<"GetAnalyticWithWords", id, role>>, r), r.st)

getAnalyticWithWordsByPostIDHandler(st, idParam, keys, fail) ==
  LET id == Atoi(idParam).n
      req == [idParam |-> idParam, keys |-> keys]
  IN IF "role" \notin DOMAIN keys
       THEN Outcome(Abort("getAnalyticWithWordsByPostID", req, StatusUnauthorized,
                          "not found role"), st)
     ELSE LET r == SrvGetAnalyticWithWords(st, id, keys["role"], fail)
          IN Outcome(getAnalyticWithWordsByPostIDReply(
                       req, <<"GetAnalyticWithWords", id, keys["role"]>>, r), r.st)

\* ------------------------------------------------------------ category handlers
getCategoriesWithPublicPostsReply(req, call, r) ==
  IF r.err # NoErr
    THEN IF ErrorsIs(r.err, ErrPostNotFound)
           THEN Fail("getCategoriesWithPublicPosts", req, call, r,
                     StatusNotFound, FALSE)
         ELSE Fail("getCategoriesWithPublicPosts", req, call, r,
                   StatusInternalServerError, TRUE)
  ELSE Ok("getCategoriesWithPublicPosts", req, call, r, StatusOK, r.val)

\* the public route calling the administrative listing
getCategoriesWithPublicPostsHandler_AllPosts(st, fail) ==
  LET r == SrvGetCategoriesWithPosts(st, fail)
  IN Outcome(getCategoriesWithPublicPostsReply(
               None, <<"GetCategoriesWithPosts">>, r), r.st)

getCategoriesWithPublicPostsHandler(st, fail) ==
  LET r == SrvGetCategoriesWithPublicPosts(st, fail)
  IN Outcome(getCategoriesWithPublicPostsReply(
               None, <<"GetCategoriesWithPublicPosts">>, r), r.st)

getCategoriesWithPostsReply(req, call, r) ==
  IF r.err # NoErr
    THEN IF ErrorsIs(r.err, ErrPostNotFound)
           THEN Fail("getCategoriesWithPosts", req, call, r, StatusNotFound, FALSE)
         ELSE Fail("getCategoriesWithPosts", req, call, r,
                   StatusInternalServerError, TRUE)
  ELSE Ok("getCategoriesWithPosts", req, call, r, StatusOK, r.val)

getCategoriesWithPostsHandler(st, fail) ==
  LET r == SrvGetCategoriesWithPosts(st, fail)
  IN Outcome(getCategoriesWithPostsReply(None, <<"GetCategoriesWithPosts">>, r),
             r.st)

getAllCategoriesReply(req, call, r) ==
  IF r.err # NoErr
    THEN IF ErrorsIs(r.err, ErrCategoryNotFound)
           THEN Fail("getAllCategories", req, call, r, StatusNotFound, FALSE)
         ELSE Fail("getAllCategories", req, call, r,
                   StatusInternalServerError, TRUE)
  ELSE Ok("getAllCategories", req, call, r, StatusOK, r.val)

getAllCategoriesHandler(st, fail) ==
  LET r == SrvGetAllCategories(st, fail)
  IN Outcome(getAllCategoriesReply(None, <<"GetAllCategories">>, r), r.st)

addCategoryReply(req, call, r) ==
  IF r.err # NoErr
    THEN IF ErrorsIs(r.err, ErrCategoryExists)
           THEN Fail("addCategory", req, call, r, StatusConflict, FALSE)
         ELSE Fail("addCategory", req, call, r, StatusInternalServerError, TRUE)
  ELSE Ok("addCategory", req, call, r, StatusCreated, r.val)

addCategoryHandler(st, bindOk, title, fail) ==
  LET req == [bindOk |-> bindOk]
  IN IF ~bindOk
       THEN Outcome(Abort("addCategory", req, StatusBadRequest, BindErrText), st)
     ELSE LET r == SrvAddCategory(st, title, fail)
          IN Outcome(addCategoryReply(req, <<"AddCategory", title>>, r), r.st)

updateCategoryReply(req, call, r) ==
  IF r.err # NoErr
    THEN IF ErrorsIs(r.err, ErrCategoryNotFound)
           THEN Fail("updateCategory", req, call, r, StatusNotFound, FALSE)
         ELSE Fail("updateCategory", req, call, r, StatusInternalServerError, TRUE)
  ELSE Ok("updateCategory", req, call, r, StatusOK, r.val)

updateCategoryHandler(st, uriOk, queryOk, category, title, fail) ==
  LET req == [bindOk |-> uriOk /\ queryOk]
  IN IF ~uriOk
       THEN Outcome(Abort("updateCategory", req, StatusBadRequest, BindErrText), st)
     ELSE IF ~queryOk
       THEN Outcome(Abort("updateCategory", req, StatusBadRequest, BindErrText), st)
     ELSE LET r == SrvUpdateCategory(st, category, title, fail)
          IN Outcome(updateCategoryReply(req, <<"UpdateCategory", category, title>>,
                                         r), r.st)

\* deleteCategory without its case for ErrCategoryNotFound
deleteCategoryReply_NoNotFoundCase(req, call, r) ==
  IF r.err # NoErr
    THEN Fail("deleteCategory", req, call, r, StatusInternalServerError, TRUE)
  ELSE Ok("deleteCategory", req, call, r, StatusNoContent, None)

deleteCategoryReply(req, call, r) ==
  IF r.err # NoErr
    THEN IF ErrorsIs(r.err, ErrCategoryNotFound)
           THEN Fail("deleteCategory", req, call, r, StatusNotFound, FALSE)
         ELSE Fail("deleteCategory", req, call, r, StatusInternalServerError, TRUE)
  ELSE Ok("deleteCategory", req, call, r, StatusNoContent, None)

deleteCategoryHandler(st, uriOk, category, cascade, fail) ==
  LET req == [bindOk |-> uriOk]
  IN IF ~uriOk
       THEN Outcome(Abort("deleteCategory", req, StatusBadRequest, BindErrText), st)
     ELSE LET r == SrvDeleteCategory(st, category, cascade, fail)
          IN Outcome(deleteCategoryReply(req, <<"DeleteCategory", category>>, r),
                     r.st)

\* ================================================================ state machine
Procs == {1, 2}

AnalyticInputs(P, M) == [postID : P, views : M]
UpdateInputs(P, M) ==
  [postID : {None} \cup {Some(p) : p \in P},
   views : {None} \cup {Some(v) : v \in M}]
Fails(D) == {NoFail} \cup D

Init ==
  /\ categories = {}
  /\ posts = {}
  /\ analytics = {}
  /\ nextID = 1
  /\ inflight = [p \in Procs |-> None]
  /\ resp = NoResp

\* a request ends: its response is written and the store is as the service left
\* it; cap bounds the server-assigned Analytic ids
Apply(out, cap) ==
  /\ out.st.nextID <= cap + 1
  /\ resp' = out.resp @@ ("changed" :> (out.st # Store))
  /\ categories' = out.st.categories
  /\ posts' = out.st.posts
  /\ analytics' = out.st.analytics
  /\ nextID' = out.st.nextID

\* one value stands for the body that failed to bind
Unbound(bindOk, x, S, fail) ==
  ~bindOk => (x = CHOOSE y \in S : TRUE) /\ fail = NoFail

addAnalytic(P, M, cap, D) ==
  \E bindOk \in BOOLEAN, a \in AnalyticInputs(P, M), fail \in Fails(D) :
    /\ Unbound(bindOk, a, AnalyticInputs(P, M), fail)
    /\ Apply(addAnalyticHandler(Store, bindOk, a, fail), cap)
    /\ UNCHANGED inflight

updateAnalytic(I, P, M, cap, D) ==
  \E idParam \in I, bindOk \in BOOLEAN, u \in UpdateInputs(P, M), fail \in Fails(D) :
    /\ Unbound(bindOk, u, UpdateInputs(P, M), fail)
    /\ Apply(updateAnalyticHandler(Store, idParam, bindOk, u, fail), cap)
    /\ UNCHANGED inflight

deleteAnalytic(I, cap, D) ==
  \E idParam \in I, fail \in Fails(D) :
    /\ Apply(deleteAnalyticHandler(Store, idParam, fail), cap)
    /\ UNCHANGED inflight

getAnalyticWithWordsByPostID(I, cap, D) ==
  \E idParam \in I, keys \in KeySets, fail \in Fails(D) :
    /\ "role" \notin DOMAIN keys => fail = NoFail
    /\ Apply(getAnalyticWithWordsByPostIDHandler(Store, idParam, keys, fail), cap)
    /\ UNCHANGED inflight

getCategoriesWithPublicPosts(cap, D) ==
  \E fail \in Fails(D) :
    /\ Apply(getCategoriesWithPublicPostsHandler(Store, fail), cap)
    /\ UNCHANGED inflight

getCategoriesWithPosts(cap, D) ==
  \E fail \in Fails(D) :
    /\ Apply(getCategoriesWithPostsHandler(Store, fail), cap)
    /\ UNCHANGED inflight

getAllCategories(cap, D) ==
  \E fail \in Fails(D) :
    /\ Apply(getAllCategoriesHandler(Store, fail), cap)
    /\ UNCHANGED inflight

addCategory(T, cap, D) ==
  \E bindOk \in BOOLEAN, title \in T, fail \in Fails(D) :
    /\ Unbound(bindOk, title, T, fail)
    /\ Apply(addCategoryHandler(Store, bindOk, title, fail), cap)
    /\ UNCHANGED inflight

updateCategory(T, cap, D) ==
  \E uriOk \in BOOLEAN, queryOk \in BOOLEAN, category \in T, title \in T,
     fail \in Fails(D) :
    /\ Unbound(uriOk /\ queryOk, <<category, title>>, T \X T, fail)
    /\ Apply(updateCategoryHandler(Store, uriOk, queryOk, category, title, fail),
             cap)
    /\ UNCHANGED inflight

deleteCategory(T, cap, D) ==
  \E uriOk \in BOOLEAN, category \in T, cascade \in BOOLEAN, fail \in Fails(D) :
    /\ Unbound(uriOk, category, T, fail)
    /\ Apply(deleteCategoryHandler(Store, uriOk, category, cascade, fail), cap)
    /\ UNCHANGED inflight

\* the post-management collaborator creates and removes Posts
CreatePost(P, V) ==
  \E id \in P, cat \in categories, public \in V :
    /\ ~PostExists(Store, id)
    /\ posts' = posts \cup {[id |-> id, cat |-> cat, public |-> public]}
    /\ resp' = NoResp
    /\ UNCHANGED <<categories, analytics, nextID, inflight>>

DeletePost ==
  \E p \in posts :
    /\ posts' = posts \ {p}
    /\ resp' = NoResp
    /\ UNCHANGED <<categories, analytics, nextID, inflight>>

\* AddAnalytic as two steps of one of several concurrent requests: the checks of
\* 4.3, then the insert at the storage boundary
beginAddAnalytic(p, P, M, cap, D) ==
  \E a \in AnalyticInputs(P, M), fail \in Fails(D) :
    LET e == IF fail # NoFail THEN fail ELSE AddAnalyticCheck(Store, a)
    IN /\ inflight[p] = None
       /\ IF e # NoErr
            THEN /\ Apply(Outcome(addAnalyticReply(
                                     [bindOk |-> TRUE, step |-> "check"],
                                     <<"AddAnalytic", a>>,
                                     Result(e, None, Store)), Store), cap)
                 /\ UNCHANGED inflight
          ELSE /\ inflight' = [inflight EXCEPT ![p] = Some(a)]
               /\ resp' = NoResp
               /\ UNCHANGED <<categories, posts, analytics, nextID>>

commitAddAnalytic(p, cap) ==
  /\ inflight[p] # None
  /\ LET a == inflight[p][1]
         r == InsertAnalytic(Store, a)
     IN Apply(Outcome(addAnalyticReply([bindOk |-> TRUE, step |-> "insert"],
                                       <<"AddAnalytic", a>>, r), r.st), cap)
  /\ inflight' = [inflight EXCEPT ![p] = None]

\* ---- all handlers, one request at a time
HandlerPosts == 1..MaxPostID
HandlerParams == {"abc"} \cup {ToString(n) : n \in 1..MaxAnalyticID}
HandlerFails == {"d1"}

Next ==
  \/ addAnalytic(HandlerPosts, Metrics, MaxAnalyticID, HandlerFails)
  \/ updateAnalytic(HandlerParams, HandlerPosts, Metrics, MaxAnalyticID,
                    HandlerFails)
  \/ deleteAnalytic(HandlerParams, MaxAnalyticID, HandlerFails)
  \/ getAnalyticWithWordsByPostID(HandlerParams, MaxAnalyticID, HandlerFails)
  \/ getCategoriesWithPublicPosts(MaxAnalyticID, HandlerFails)
  \/ getCategoriesWithPosts(MaxAnalyticID, HandlerFails)
  \/ getAllCategories(MaxAnalyticID, HandlerFails)
  \/ addCategory(Titles, MaxAnalyticID, HandlerFails)
  \/ updateCategory(Titles, MaxAnalyticID, HandlerFails)
  \/ deleteCategory(Titles, MaxAnalyticID, HandlerFails)
  \/ CreatePost(HandlerPosts, BOOLEAN)
  \/ DeletePost

Spec == Init /\ [][Next]_vars

\* ---- the category listings over a larger Post store
ListedPosts == 1..MaxListedPostID

NextCategory ==
  \/ getCategoriesWithPublicPosts(0, {})
  \/ getCategoriesWithPosts(0, {})
  \/ addCategory(Titles, 0, {})
  \/ updateCategory(Titles, 0, {})
  \/ deleteCategory(Titles, 0, {})
  \/ CreatePost(ListedPosts, BOOLEAN)
  \/ DeletePost

SpecCategory == Init /\ [][NextCategory]_vars

\* ---- the write handlers over a store of several Posts and Analytics
WritePosts == 1..MaxWritePostID
WriteParams == {ToString(n) : n \in 1..MaxWriteAnalyticID}

NextWrite ==
  \/ addCategory({"t1"}, MaxWriteAnalyticID, HandlerFails)
  \/ updateCategory({"t1"}, MaxWriteAnalyticID, HandlerFails)
  \/ addAnalytic(WritePosts, Metrics, MaxWriteAnalyticID, HandlerFails)
  \/ updateAnalytic(WriteParams, WritePosts, Metrics, MaxWriteAnalyticID,
                    HandlerFails)
  \/ CreatePost(WritePosts, {TRUE})
  \/ DeletePost

SpecWrite == Init /\ [][NextWrite]_vars

\* ---- concurrent AddAnalytic requests among updates and deletes
NextRace ==
  \/ \E p \in Procs : beginAddAnalytic(p, WritePosts, {0}, MaxWriteAnalyticID, {})
  \/ \E p \in Procs : commitAddAnalytic(p, MaxWriteAnalyticID)
  \/ updateAnalytic(WriteParams, WritePosts, {}, MaxWriteAnalyticID, {})
  \/ deleteAnalytic(WriteParams, MaxWriteAnalyticID, {})
  \/ addCategory({"t1"}, MaxWriteAnalyticID, {})
  \/ CreatePost(WritePosts, {TRUE})
  \/ DeletePost

SpecRace == Init /\ [][NextRace]_vars

\* ================================================================ properties
Served(h) == resp.handler = h
Called == resp.call # NoCall
UnparsedId == Atoi(resp.req.idParam).err

\* C1: an update with every optional field unset is answered 400 "analytic has no
\* changes" whatever the target id is, h.srv.UpdateAnalytic is not called and the
\* store is unchanged.
C1_EmptyUpdateFailsFast ==
  (Served("updateAnalytic") /\ resp.req.bindOk /\ resp.req.empty) =>
    /\ resp.status = StatusBadRequest
    /\ resp.errText = "analytic has no changes"
    /\ ~Called
    /\ ~resp.changed

\* an empty update aimed at an Analytic that exists has been answered
C1_Witness ==
  /\ Served("updateAnalytic") /\ resp.req.bindOk /\ resp.req.empty
  /\ \E a \in analytics : a.id = Atoi(resp.req.idParam).n
  /\ resp.status = StatusBadRequest

\* the PostID of the AddAnalytic call behind the response
AddedPostID == resp.call[2].postID

\* C3 as claimed: AddAnalytic for a PostID that resolves to no Post always yields
\* AnalyticDependencyNotFound, whether or not an Analytic exists for that PostID,
\* and persists nothing (the persistence engine itself not failing).
C3_MissingPostAlwaysDependencyNotFound ==
  (Served("addAnalytic") /\ Called /\ resp.err \notin Details
     /\ ~PostExists(Store, AddedPostID)) =>
    /\ resp.err = ErrAnalyticDependencyNotFound
    /\ ~resp.changed

\* C3 amended: for a PostID that resolves to no Post, AddAnalytic persists nothing
\* and yields PostIDAlreadyExists (400) when an Analytic already exists for that
\* PostID, AnalyticDependencyNotFound (409) otherwise: the duplicate check
\* precedes the dependency check.
C3_MissingPostRejected ==
  (Served("addAnalytic") /\ Called /\ resp.err \notin Details
     /\ ~PostExists(Store, AddedPostID)) =>
    /\ ~resp.changed
    /\ IF HasAnalyticFor(Store, AddedPostID)
         THEN resp.err = ErrPostIDExist /\ resp.status = StatusBadRequest
       ELSE resp.err = ErrAnalyticDependencyNotFound
            /\ resp.status = StatusConflict

\* AddAnalytic was called for a PostID whose Post is gone and whose Analytic is not
C3_Witness ==
  /\ Served("addAnalytic") /\ Called /\ resp.err \notin Details
  /\ ~PostExists(Store, AddedPostID)
  /\ HasAnalyticFor(Store, AddedPostID)

\* C5: without a role in the request context the request ends 401 and
\* h.srv.GetAnalyticWithWords is not called; with one, the call carries the post id
\* and exactly that role, and a missing Analytic is answered 404, never 401.
C5_RoleGate ==
  Served("getAnalyticWithWordsByPostID") =>
    IF "role" \notin DOMAIN resp.req.keys
      THEN /\ resp.status = StatusUnauthorized
           /\ resp.errText = "not found role"
           /\ ~Called
    ELSE /\ resp.call = <<"GetAnalyticWithWords", Atoi(resp.req.idParam).n,
                           resp.req.keys["role"]>>
         /\ resp.status # StatusUnauthorized
         /\ resp.err = ErrAnalyticNotFound => resp.status = StatusNotFound

\* a request without a role for a Post that has an Analytic has been answered
C5_Witness ==
  /\ Served("getAnalyticWithWordsByPostID")
  /\ "role" \notin DOMAIN resp.req.keys
  /\ HasAnalyticFor(Store, Atoi(resp.req.idParam).n)

WriteHandlers == {"addCategory", "updateCategory", "addAnalytic", "updateAnalytic"}
ConflictErrors == {ErrCategoryExists, ErrPostIDExist, ErrAnalyticDependencyNotFound}

\* C6 as claimed: every conflict-style error the service returns to a write handler
\* is answered 409.
C6_ConflictsAre409 ==
  (resp.handler \in WriteHandlers /\ Called /\ resp.err \in ConflictErrors) =>
    resp.status = StatusConflict

\* C6 amended: of the conflict-style errors the service returns to a write handler,
\* CategoryAlreadyExists (addCategory) and AnalyticDependencyNotFound (addAnalytic,
\* updateAnalytic) are answered 409 and PostIDAlreadyExists (addAnalytic,
\* updateAnalytic) is answered 400; none is answered 500 or logged.
C6_ConflictsAreClientErrors ==
  (resp.handler \in WriteHandlers /\ Called /\ resp.err \in ConflictErrors) =>
    /\ resp.status = IF resp.err = ErrPostIDExist THEN StatusBadRequest
                     ELSE StatusConflict
    /\ resp.errText = resp.err
    /\ resp.log = NoLog

\* updateAnalytic has answered a move onto a PostID that has an Analytic
C6_Witness ==
  /\ Served("updateAnalytic") /\ Called
  /\ resp.err = ErrPostIDExist

\* the not-found kind each handler names
NotFoundOf(h) ==
  CASE h \in {"getAllCategories", "updateCategory", "deleteCategory"} ->
         ErrCategoryNotFound
    [] h \in {"getCategoriesWithPublicPosts", "getCategoriesWithPosts"} ->
         ErrPostNotFound
    [] h \in {"updateAnalytic", "deleteAnalytic", "getAnalyticWithWordsByPostID"} ->
         ErrAnalyticNotFound
    [] OTHER -> "none"

\* C9: CategoryNotFound, PostNotFound and AnalyticNotFound, returned to the handlers
\* that name them, are answered 404 with the error as body and no success value.
C9_NotFoundIs404 ==
  (Called /\ resp.err = NotFoundOf(resp.handler)) =>
    /\ resp.status = StatusNotFound
    /\ resp.errText = resp.err
    /\ resp.val = None

\* deleteCategory has answered a title that is not in the store
C9_Witness ==
  /\ Served("deleteCategory") /\ Called
  /\ resp.err = ErrCategoryNotFound

\* the named error kinds each handler has a case for
Handled(h) ==
  CASE h = "addAnalytic" -> {ErrPostIDExist, ErrAnalyticDependencyNotFound}
    [] h = "updateAnalytic" ->
         {ErrPostIDExist, ErrAnalyticNotFound, ErrAnalyticDependencyNotFound}
    [] h = "addCategory" -> {ErrCategoryExists}
    [] OTHER -> {NotFoundOf(h)}

\* C10: a log record is written exactly when the service call returned an error
\* the handler has no case for, which is exactly when the response is 500.
C10_LogOnlyUnexpected ==
  ~Served("none") =>
    /\ resp.log # NoLog <=>
         (Called /\ resp.err # NoErr /\ resp.err \notin Handled(resp.handler))
    /\ resp.log # NoLog <=> resp.status = StatusInternalServerError
    /\ resp.log # NoLog => resp.log = resp.err

\* a persistence failure has been logged and answered 500
C10_Witness ==
  /\ ~Served("none")
  /\ resp.status = StatusInternalServerError
  /\ resp.log \in Details

\* what the caller receives: the status and the body
Body(r) == <<r.status, r.errText, r.val>>

\* C7: a persistence failure that is none of the named errors is surfaced
\* generically: on the same store, two requests that differ only in the text of
\* that failure receive the same status and body, in every handler.
C7_UnexpectedIsGeneric ==
  \A d1 \in Details, d2 \in Details :
    /\ \A a \in AnalyticInputs(HandlerPosts, Metrics) :
         Body(addAnalyticHandler(Store, TRUE, a, d1).resp)
           = Body(addAnalyticHandler(Store, TRUE, a, d2).resp)
    /\ \A i \in HandlerParams, u \in UpdateInputs(HandlerPosts, Metrics) :
         Body(updateAnalyticHandler(Store, i, TRUE, u, d1).resp)
           = Body(updateAnalyticHandler(Store, i, TRUE, u, d2).resp)
    /\ \A i \in HandlerParams :
         Body(deleteAnalyticHandler(Store, i, d1).resp)
           = Body(deleteAnalyticHandler(Store, i, d2).resp)
    /\ \A i \in HandlerParams, k \in KeySets :
         Body(getAnalyticWithWordsByPostIDHandler(Store, i, k, d1).resp)
           = Body(getAnalyticWithWordsByPostIDHandler(Store, i, k, d2).resp)
    /\ Body(getCategoriesWithPublicPostsHandler(Store, d1).resp)
         = Body(getCategoriesWithPublicPostsHandler(Store, d2).resp)
    /\ Body(getCategoriesWithPostsHandler(Store, d1).resp)
         = Body(getCategoriesWithPostsHandler(Store, d2).resp)
    /\ Body(getAllCategoriesHandler(Store, d1).resp)
         = Body(getAllCategoriesHandler(Store, d2).resp)
    /\ \A t \in Titles :
         Body(addCategoryHandler(Store, TRUE, t, d1).resp)
           = Body(addCategoryHandler(Store, TRUE, t, d2).resp)
    /\ \A c \in Titles, t \in Titles :
         Body(updateCategoryHandler(Store, TRUE, TRUE, c, t, d1).resp)
           = Body(updateCategoryHandler(Store, TRUE, TRUE, c, t, d2).resp)
    /\ \A c \in Titles, cascade \in BOOLEAN :
         Body(deleteCategoryHandler(Store, TRUE, c, cascade, d1).resp)
           = Body(deleteCategoryHandler(Store, TRUE, c, cascade, d2).resp)

BodyHandlers ==
  {"addAnalytic", "updateAnalytic", "addCategory", "updateCategory",
   "deleteCategory"}
IdHandlers == {"updateAnalytic", "deleteAnalytic", "getAnalyticWithWordsByPostID"}

\* C8: every failure while a request is processed (a binding failure, an id path
\* parameter that is no integer, a missing role, a service error) ends the request
\* with an error response; after a failure before the service call the service is
\* not called, and after a service error no success value is written.
C8_NoErrorSwallowed ==
  /\ (resp.handler \in BodyHandlers /\ ~resp.req.bindOk) =>
       resp.status = StatusBadRequest /\ ~Called /\ resp.val = None
  /\ (resp.handler \in IdHandlers /\ UnparsedId) =>
       resp.status >= StatusBadRequest /\ ~Called
  /\ (Served("getAnalyticWithWordsByPostID") /\ "role" \notin DOMAIN resp.req.keys) =>
       resp.status = StatusUnauthorized /\ ~Called
  /\ (Called /\ resp.err # NoErr) =>
       resp.status >= StatusBadRequest /\ resp.errText = resp.err
         /\ resp.val = None /\ ~resp.changed

\* the ids of the Posts of title t, all of them or the public ones
PostsOf(t, publicOnly) ==
  {p.id : p \in {q \in posts : q.cat = t /\ (publicOnly => q.public)}}

\* C4: getCategoriesWithPublicPosts calls the public-only service operation and no
\* other, and what it returns holds, for each Category title, exactly the public
\* Posts of that category, so no private Post; getCategoriesWithPosts returns
\* all Posts of each category, public and private.
C4_PublicListingHidesPrivatePosts ==
  /\ Served("getCategoriesWithPublicPosts") =>
       /\ resp.call = <<"GetCategoriesWithPublicPosts">>
       /\ resp.status = StatusOK =>
            /\ DOMAIN resp.val = {t \in categories : PostsOf(t, TRUE) # {}}
            /\ \A t \in DOMAIN resp.val : resp.val[t] = PostsOf(t, TRUE)
            /\ \A t \in DOMAIN resp.val : \A p \in posts :
                 p.id \in resp.val[t] => p.public
  /\ Served("getCategoriesWithPosts") =>
       /\ resp.call = <<"GetCategoriesWithPosts">>
       /\ resp.status = StatusOK =>
            /\ DOMAIN resp.val = {t \in categories : PostsOf(t, FALSE) # {}}
            /\ \A t \in DOMAIN resp.val : resp.val[t] = PostsOf(t, FALSE)

\* the public listing has answered with a category of two public Posts and one
\* private Post
C4_Witness ==
  /\ Served("getCategoriesWithPublicPosts")
  /\ resp.status = StatusOK
  /\ \E t \in categories :
       /\ Cardinality(PostsOf(t, TRUE)) = 2
       /\ Cardinality(PostsOf(t, FALSE)) = 3

\* the Analytics for PostID P that were there before the response's request
Before(P) ==
  {a \in analytics : a.postID = P /\ (resp.changed => a # resp.val)}

\* C2: in every state at most one Analytic exists per PostID, whatever the
\* interleaving of AddAnalytic, UpdateAnalytic and DeleteAnalytic requests; an
\* AddAnalytic for a PostID that has an Analytic is rejected with
\* PostIDAlreadyExists (400) and persists nothing, be it at its check or, having
\* lost a race, at its insert.
C2_OneAnalyticPerPost ==
  /\ \A a \in analytics, b \in analytics : a.postID = b.postID => a = b
  /\ (Served("addAnalytic") /\ Called /\ Before(AddedPostID) # {}) =>
       /\ resp.err = ErrPostIDExist
       /\ resp.status = StatusBadRequest
       /\ ~resp.changed

\* an AddAnalytic that passed its check lost the race and was rejected at its insert
C2_Witness ==
  /\ Served("addAnalytic") /\ Called
  /\ resp.req.step = "insert"
  /\ resp.err = ErrPostIDExist

====
